---- MODULE Spec2Model ----
(***************************************************************************)
(* Model of the conversation tree (app/services/state_manager.py), the     *)
(* summarizer call (app/services/openrouter_service.py) and the chat turn  *)
(* (app/routers/chat.py), the causal filter                                *)
(* (app/services/causal_service.py), the vector index                      *)
(* (app/services/knowledge_service.py) and the sessions table              *)
(* (app/services/db_service.py).                                           *)
(*                                                                         *)
(* Texts are sequences of words; the empty sequence is the empty string.   *)
(* An optional text (a nullable column) is a sequence of at most one text: *)
(* <<>> is NULL and <<t>> is the value t.  Node ids are the integers       *)
(* 1, 2, ... in the order uuid4() mints them; NoId is None.  Similarities  *)
(* are hundredths (40 is 0.40).                                            *)
(***************************************************************************)
EXTENDS Integers, Sequences, FiniteSets, TLC

\* ---- bounds ----
MaxNodes == 3
MaxChunks == 2
MaxTasks == 1
MaxChainNodes == 3
MaxCands == 4
MaxDocs == 3
MaxNewlines == 2
MaxRetrieved == 2

\* ---- values ----
NoId == 0
\* MaxNodes is the number of node ids uuid4() mints: a turn that reaches its
\* stream mints two (user node, assistant node), a direct create_node one.
\* There is a turn for every three ids: its two, and one for a node that a
\* direct call creates beside it.
NodeIds == 1..MaxNodes
Turns == 1..(MaxNodes \div 3)
\* an id the client made up: it names no node and uuid4() never returns it
UnknownId == MaxNodes + 1
\* sessions the client names itself; the server mints the ones after them
ClientSessions == {1}
NoSession == 0

Null == <<>>
Some(t) == <<t>>

UserTexts == {<<"hi">>}
\* the text the LLM streams: its k-th chunk with text is the word "k", so
\* that a chunk lost, repeated or out of place shows in the text; a chunk
\* may also carry no text (delta.content is None or "")
Chunk(k) == <<ToString(k)>>
EmptyChunk == <<>>
Roles == {"user", "assistant"}
\* the role direct callers of create_node pass (benchmarks/reproduce_results.py)
CallRoles == {"assistant"}
\* values sklearn's cosine_similarity can take around the threshold
SimValues == {40, 41}
\* final_system_prompt (chat.py:188) and an entry of a message list
SystemText == <<"sys">>
Msg(role, content) == [role |-> role, content |-> content]
\* req.messages[:-1], the history a client sends along with a turn that names
\* no parent: roles are free text (chat.py:28-30)
Histories == {<<>>, <<Msg("system", <<"hi">>)>>}
\* what the security service makes of the input: the confidence of
\* detect_prompt_injection in hundredths (0: no pattern matched) and the
\* answer of detect_sql_injection
Confidences == {0, 80, 90}
Verdicts == [confidence : Confidences, sql_detected : BOOLEAN]
NoVerdict == [confidence |-> 0, sql_detected |-> FALSE]
\* the LLM's error texts
ErrKinds == {"system_message", "data_policy", "other"}

VARIABLES messages, nextNode, nextSession, tasks, turn, chainResult, causal,
          collection, kb_docs, kbCall, sessions, sessionCall

vars == <<messages, nextNode, nextSession, tasks, turn, chainResult, causal,
          collection, kb_docs, kbCall, sessions, sessionCall>>

\* ---- app/database.py: a row of the messages table ----
NewMessage(session_id, node_id, parent_id, role, content, tokens, similarity) ==
    [session_id |-> session_id, node_id |-> node_id, parent_id |-> parent_id,
     role |-> role, content |-> content, tokens |-> tokens,
     summary |-> Null, similarity_to_parent |-> similarity]

\* db.query(Message).filter(Message.node_id == id).first() is not None
Stored(msgs, id) == id \in DOMAIN msgs

\* ---- StateManager.__init__ ----
similarity_threshold == 40

\* Python truthiness of an optional string: None and "" are both false
Truthy(opt) == opt # Null /\ opt[1] # <<>>

\* ---- StateManager.get_context_chain ----
ChainEntry_ContentOnly(msg) == [role |-> msg.role, content |-> msg.content]

\* one entry of the chain: the summary if it is truthy, else the content
ChainEntry(msg) ==
    [role |-> msg.role,
     content |-> IF Truthy(msg.summary) THEN msg.summary[1] ELSE msg.content]

Reverse_LeafFirst(s) == s

Reverse(s) == [i \in 1..Len(s) |-> s[Len(s) + 1 - i]]

\* The while loop.  chain and visited grow leaf-first.  The store does not
\* change during the loop (the coroutine never awaits), so a loop that has
\* run more iterations than there are rows has seen a row twice and repeats
\* forever: fuel counts the iterations left before that is certain.
RECURSIVE WalkChain(_, _, _, _, _)
WalkChain(msgs, curr_id, chain, visited, fuel) ==
    IF curr_id = NoId \/ ~Stored(msgs, curr_id)
    THEN [status |-> "returned", chain |-> Reverse(chain),
          visited |-> Reverse(visited), leaf |-> NoId]
    ELSE IF fuel = 0
    THEN [status |-> "diverges", chain |-> <<>>, visited |-> <<>>, leaf |-> NoId]
    ELSE WalkChain(msgs, msgs[curr_id].parent_id,
                   Append(chain, ChainEntry(msgs[curr_id])),
                   Append(visited, curr_id), fuel - 1)

get_context_chain(msgs, leaf_node_id) ==
    WalkChain(msgs, leaf_node_id, <<>>, <<>>, Cardinality(DOMAIN msgs) + 1)

\* ---- StateManager.create_node ----
\* the similarity: 0.0 unless a parent id was given and its row was found;
\* sim is what _calculate_basic_similarity returns for the two contents
CreateSimilarity(msgs, parent_id, sim) ==
    IF parent_id # NoId /\ Stored(msgs, parent_id) THEN sim ELSE 0

ScheduleTask_AtThreshold(tks, node_id, similarity) ==
    IF similarity >= similarity_threshold
    THEN tks @@ (node_id :> [pc |-> "scheduled", parent_content |-> <<>>,
                             child_content |-> <<>>, outcome |-> "", result |-> Null])
    ELSE tks

\* asyncio.create_task(self._coarse_grain_node(new_node_id))
ScheduleTask(tks, node_id, similarity) ==
    IF similarity > similarity_threshold
    THEN tks @@ (node_id :> [pc |-> "scheduled", parent_content |-> <<>>,
                             child_content |-> <<>>, outcome |-> "", result |-> Null])
    ELSE tks

CreateNodeStore_ParentIsSelf(msgs, session_id, node_id, parent_id, role, content, similarity) ==
    msgs @@ (node_id :> NewMessage(session_id, node_id,
                                   IF parent_id = NoId THEN NoId ELSE node_id,
                                   role, content, 0, similarity))

\* the store after create_node: the row is added and committed at once
CreateNodeStore(msgs, session_id, node_id, parent_id, role, content, similarity) ==
    msgs @@ (node_id :> NewMessage(session_id, node_id, parent_id, role, content, 0, similarity))

\* ---- openrouter_service.generate_fast_summary ----
SummaryFailedText == <<"[Summary Generation Failed]">>
SummaryErrorText == <<"[Error]">>
\* what the model can answer, after .strip(): some text, or nothing
GeneratedTexts == {<<"sum">>, <<>>}
\* the HTTP exchange: a 200 with a text, another status, or an exception
Responses ==
    [kind : {"ok"}, text : GeneratedTexts]
        \cup {[kind |-> "status", text |-> <<>>], [kind |-> "exception", text |-> <<>>]}

generate_fast_summary(resp) ==
    CASE resp.kind = "ok" -> resp.text
      [] resp.kind = "status" -> SummaryFailedText
      [] resp.kind = "exception" -> SummaryErrorText

\* ---- chat.py: the row event_generator writes at the end of the stream ----
AssistantMessage_ParentOfRequest(tr) ==
    NewMessage(tr.session_id, tr.ai_node_id, messages[tr.user_node_id].parent_id,
               "assistant", tr.full_response, Len(tr.full_response) \div 4, 0)

AssistantMessage(tr) ==
    NewMessage(tr.session_id, tr.ai_node_id, tr.user_node_id, "assistant",
               tr.full_response, Len(tr.full_response) \div 4, 0)

ShouldPersist_SessionOnly(tr) == tr.session_id # NoSession

\* line 262: if session_id and full_response
ShouldPersist(tr) == tr.session_id # NoSession /\ tr.full_response # <<>>

ErrorSentence(e) ==
    [kind |-> "error", attempt |-> 0,
     text |-> IF e = "data_policy" THEN <<"[System Error]">> ELSE <<"[Error]">>]

\* an item of the response body: the text, and the call that streamed it
TokenItem(c, attempt) == [kind |-> "token", text |-> c, attempt |-> attempt]

\* lines 190-192: the system prompt, the context, the user's text
LLMMessages(messages_to_send, user_content) ==
    <<Msg("system", SystemText)>> \o messages_to_send \o <<Msg("user", user_content)>>

fallback_messages_DropSystem(msgs) ==
    LET NotSystem(m) == m.role # "system" IN SelectSeq(msgs, NotSystem)

\* lines 228-234: the list of the retry; sys_msg is the first system message,
\* which line 190 always puts there
fallback_messages(msgs) ==
    LET NotSystem(m) == m.role # "system"
        IsSystem(m) == m.role = "system"
        sys_msg == Head(SelectSeq(msgs, IsSystem))
        rest == SelectSeq(msgs, NotSystem)
    IN IF rest # <<>> /\ rest[1].role = "user"
       THEN <<Msg("user", <<"System Instructions:">> \o sys_msg.content
                              \o <<"User Query:">> \o rest[1].content)>> \o Tail(rest)
       ELSE <<Msg("user", <<"System Instructions:">> \o sys_msg.content)>> \o rest

\* security_service.detect_prompt_injection: is_injection = max_confidence > 0.6
IsInjection(verdict) == verdict.confidence > 60

Blocked_SqlOnly(verdict) == verdict.sql_detected

\* chat.py lines 85 and 95: the two conditions that raise HTTP 400
Blocked(verdict) ==
    \/ IsInjection(verdict) /\ verdict.confidence > 80
    \/ verdict.sql_detected

IdleTurn ==
    [pc |-> "idle", verdict |-> NoVerdict, session_id |-> NoSession, session_given |-> FALSE,
     user_node_id |-> NoId, ai_node_id |-> NoId, messages_to_send |-> <<>>,
     full_response |-> <<>>,
     body |-> <<>>, err |-> "", llm_failed |-> FALSE, status |-> 0, trace |-> <<>>]

NoChain == [status |-> "none", chain |-> <<>>, visited |-> <<>>, leaf |-> NoId]

\* ---- app/services/causal_service.py ----
\* a causal graph (networkx DiGraph): its nodes and its directed edges
NoGraph == [nodes |-> {}, edges |-> {}]
Graphs ==
    {NoGraph,
     [nodes |-> {"a", "b"}, edges |-> {<<"a", "b">>}],
     [nodes |-> {"a", "b", "c"}, edges |-> {<<"a", "b">>}]}

\* the words spaCy tags as NOUN or PROPN; "x" is any other word
Nouns == {"a", "b", "c"}
QueryTexts == {<<"x">>, <<"a">>, <<"a", "a">>}
ChunkTexts == {<<"x">>, <<"b">>, <<"c">>, <<"a", "b">>}

\* _extract_entities: nothing without the model, else the nouns of the text,
\* one entry per occurrence
extract_entities(nlp, text) ==
    LET IsNoun(w) == w \in Nouns
    IN IF ~nlp THEN <<>> ELSE SelectSeq(text, IsNoun)

\* the nodes reachable from the nodes of S (S included)
RECURSIVE Reach(_, _)
Reach(graph, S) ==
    LET S2 == S \cup {e[2] : e \in {d \in graph.edges : d[1] \in S}}
    IN IF S2 = S THEN S ELSE Reach(graph, S2)

\* nx.has_path(graph, source, target)
has_path(graph, source, target) == target \in Reach(graph, {source})

\* lines 63-71: one point for every pair of a query entity and a chunk entity
\* that are nodes of the graph with a path one way or the other
CausalScore(graph, query_entities, chunk_entities) ==
    Cardinality({p \in (1..Len(query_entities)) \X (1..Len(chunk_entities)) :
        LET q_ent == query_entities[p[1]]
            c_ent == chunk_entities[p[2]]
        IN /\ q_ent \in graph.nodes /\ c_ent \in graph.nodes
           /\ has_path(graph, q_ent, c_ent) \/ has_path(graph, c_ent, q_ent)})

\* list.sort(key=score, reverse=True): stable, so equal scores keep their order
RECURSIVE InsertByScore(_, _)
InsertByScore(sorted, e) ==
    IF sorted = <<>> THEN <<e>>
    ELSE IF Head(sorted).score >= e.score
         THEN <<Head(sorted)>> \o InsertByScore(Tail(sorted), e)
         ELSE <<e>> \o sorted

RECURSIVE SortFrom(_, _)
SortFrom(sorted, rest) ==
    IF rest = <<>> THEN sorted
    ELSE SortFrom(InsertByScore(sorted, Head(rest)), Tail(rest))

SortByScore_TiesReversed(scored_chunks) == SortFrom(<<>>, Reverse(scored_chunks))

SortByScore(scored_chunks) == SortFrom(<<>>, scored_chunks)

\* the slices [:3] of lines 54, 58 and 77
TopK == 3
FirstK(s) == SubSeq(s, 1, IF Len(s) < TopK THEN Len(s) ELSE TopK)

verify_mechanisms_SliceFirst(nlp, graph, query, context_chunks) ==
    LET query_entities == extract_entities(nlp, query)
        first == FirstK(context_chunks)
        scored_chunks == [i \in 1..Len(first) |->
            [chunk |-> first[i],
             score |-> CausalScore(graph, query_entities,
                                   extract_entities(nlp, first[i]))]]
        sorted == SortByScore(scored_chunks)
    IN [i \in 1..Len(sorted) |-> sorted[i].chunk]

verify_mechanisms(nlp, graph, query, context_chunks) ==
    LET query_entities == extract_entities(nlp, query)
        scored_chunks == [i \in 1..Len(context_chunks) |->
            [chunk |-> context_chunks[i],
             score |-> CausalScore(graph, query_entities,
                                   extract_entities(nlp, context_chunks[i]))]]
        sorted == FirstK(SortByScore(scored_chunks))
    IN IF ~nlp THEN FirstK(context_chunks)
       ELSE IF query_entities = <<>> THEN FirstK(context_chunks)
       ELSE [i \in 1..Len(sorted) |-> sorted[i].chunk]

\* lines 60-73: the scores given to the candidates, in input order; none is
\* given when the method returns at line 54 or 58
score_chunks(nlp, graph, query, context_chunks) ==
    LET query_entities == extract_entities(nlp, query)
    IN IF ~nlp \/ query_entities = <<>> THEN <<>>
       ELSE [i \in 1..Len(context_chunks) |->
               CausalScore(graph, query_entities,
                           extract_entities(nlp, context_chunks[i]))]

NoCausal ==
    [pc |-> "none", nlp |-> FALSE, graph |-> NoGraph, query |-> <<>>,
     context_chunks |-> <<>>, result |-> <<>>, scores |-> <<>>]

\* ---- app/services/knowledge_service.py ----
\* A document text is given by its length and the offsets of its newlines: no
\* other character matters to the chunking.  The slice text[from:to] is kept
\* as the text with its two offsets.  Document ids are the integers that
\* KnowledgeDoc.id takes; a chunk id "{doc_id}_{start}" is kept as the pair of
\* its two numbers, which the string determines (neither decimal numeral
\* contains "_").
NoDoc == 0
DocIds == 1..MaxDocs
chunk_size == 1000
overlap == 100
\* n_results of the call at chat.py:149
n_results == 10

\* the lengths and newline offsets of the texts that are chunked: around the
\* window size, the half window of line 44 and the overlap
TextLens == {0, 1, chunk_size, chunk_size + 1, 2 * chunk_size - overlap,
             2 * chunk_size - overlap + 1, 2 * chunk_size + 1}
NewlineSlots ==
    LET half == chunk_size \div 2
        second == chunk_size - overlap
    IN {0, half - 1, half, half + 1, chunk_size - 1, chunk_size,
        (half + 2 - overlap) + half, second + half, second + half + 1}
Texts ==
    {t \in [len : TextLens, newlines : SUBSET NewlineSlots] :
        /\ Cardinality(t.newlines) <= MaxNewlines
        /\ \A p \in t.newlines : p < t.len}
\* the texts uploaded where several documents share the index
KBTexts ==
    {[len |-> 0, newlines |-> {}], [len |-> 1, newlines |-> {}],
     [len |-> chunk_size + 1, newlines |-> {chunk_size \div 2 + 1}]}

Slice(text, from, to) == [text |-> text, from |-> from, to |-> to]
ChunkId(doc_id, start) == <<doc_id, start>>
Metadata(filename, source_id) == [filename |-> filename, source_id |-> source_id]

Min(a, b) == IF a < b THEN a ELSE b

\* text.rfind('\n', start, end)
rfind_newline(text, start, end) ==
    LET found == {p \in text.newlines : start <= p /\ p < end}
    IN IF found = {} THEN -1 ELSE CHOOSE p \in found : \A q \in found : q <= p

\* lines 37-46: where the chunk that starts at start ends
chunk_end(text, start) ==
    LET end == Min(start + chunk_size, text.len)
        last_newline == rfind_newline(text, start, end)
    IN IF end < text.len /\ last_newline # -1 /\ last_newline > start + chunk_size \div 2
       THEN last_newline + 1
       ELSE end

next_start_NoOverlap(start, end, last_start) == end + 1

\* lines 57-66: where the next chunk starts
next_start(start, end, last_start) ==
    LET n1 == end - overlap
        n2 == IF n1 <= last_start THEN last_start + 1 ELSE n1
    IN IF n2 <= start THEN start + 1 ELSE n2

\* lines 36-69: the while loop; fuel bounds the iterations that are followed
RECURSIVE chunk_loop(_, _, _, _, _, _, _)
chunk_loop(doc_id, text, metadata, start, last_start, chunks, fuel) ==
    IF ~(start < text.len) THEN [status |-> "done", chunks |-> chunks]
    ELSE IF fuel = 0 THEN [status |-> "diverges", chunks |-> chunks]
    ELSE LET end == chunk_end(text, start)
             all == Append(chunks, [id |-> ChunkId(doc_id, start),
                                    document |-> Slice(text, start, end),
                                    metadata |-> metadata])
         IN IF end >= text.len THEN [status |-> "done", chunks |-> all]
            ELSE LET n == next_start(start, end, last_start)
                 IN chunk_loop(doc_id, text, metadata, n, n, all, fuel - 1)

\* lines 25-69 of add_document: the chunks, their ids and their metadata
split_document(doc_id, text, metadata) ==
    chunk_loop(doc_id, text, metadata, 0, -1, <<>>, text.len + 1)

\* collection.add: chromadb refuses a batch that names an id twice, and
\* leaves alone an id the collection already holds
collection_add(coll, chunks) ==
    LET ids == {chunks[i].id : i \in 1..Len(chunks)}
        row(id) == LET i == CHOOSE k \in 1..Len(chunks) : chunks[k].id = id
                   IN [document |-> chunks[i].document, metadata |-> chunks[i].metadata]
    IN IF Cardinality(ids) # Len(chunks) THEN coll
       ELSE [id \in DOMAIN coll \cup ids |-> IF id \in DOMAIN coll THEN coll[id] ELSE row(id)]

delete_document_DropAll(coll, doc_id) == [id \in {} |-> coll[id]]

\* collection.delete(where={"source_id": doc_id})
delete_document(coll, doc_id) ==
    [id \in {i \in DOMAIN coll : coll[i].metadata.source_id # doc_id} |-> coll[id]]

\* collection.query(n_results=n): the ids of the n chunks nearest to the query,
\* or of all chunks if there are fewer; which are nearest is up to the embedding
QueryResults(coll, n) ==
    {S \in SUBSET DOMAIN coll : Cardinality(S) = Min(n, Cardinality(DOMAIN coll))}

NoText == [len |-> 0, newlines |-> {}]
NoKbCall ==
    [op |-> "none", doc_id |-> NoDoc, text |-> NoText, status |-> "", chunks |-> <<>>,
     result |-> {}]

\* ---- app/services/db_service.py ----
\* sessions is the sessions table (the ids that have a row); sessionCall is
\* the last call of delete_chat_session with what it returned
NoSessionCall == [op |-> "none", session_id |-> NoSession, result |-> FALSE]

\* db.delete(session) with cascade="all, delete-orphan" on Session.messages:
\* the rows of the session are deleted with it
delete_cascade(msgs, session_id) ==
    [n \in {m \in DOMAIN msgs : msgs[m].session_id # session_id} |-> msgs[n]]

Init ==
    /\ messages = <<>>
    /\ nextNode = 1
    /\ nextSession = Cardinality(ClientSessions) + 1
    /\ tasks = <<>>
    /\ turn = [t \in Turns |-> IdleTurn]
    /\ chainResult = NoChain
    /\ causal = NoCausal
    /\ collection = <<>>
    /\ kb_docs = <<>>
    /\ kbCall = NoKbCall
    /\ sessions = {}
    /\ sessionCall = NoSessionCall

\* ids a client can name as a parent: those already minted, and made-up ones
\* the similarities create_node may be given: above the threshold only
\* while fewer than MaxTasks coarse-graining tasks were scheduled
SimChoices == IF Cardinality(DOMAIN tasks) < MaxTasks THEN SimValues
              ELSE {v \in SimValues : v <= similarity_threshold}

KnownIds == 1..(nextNode - 1)
ParentChoices == {NoId, UnknownId} \cup KnownIds
SessionChoices == ClientSessions \cup (Cardinality(ClientSessions) + 1)..(nextSession - 1)

\* ids that turns in flight will still mint at line 195
Reserved == Cardinality({t \in Turns : turn[t].pc = "query"})

\* a direct call of create_node (benchmarks/reproduce_results.py, the tests),
\* under a session id of the caller's own
CreateNodeCall ==
    /\ nextNode + Reserved <= MaxNodes
    /\ \E session_id \in ClientSessions, parent_id \in ParentChoices,
          role \in CallRoles, content \in UserTexts :
       \E sim \in IF parent_id # NoId /\ Stored(messages, parent_id) THEN SimChoices ELSE {0} :
         LET similarity == CreateSimilarity(messages, parent_id, sim) IN
         /\ messages' = CreateNodeStore(messages, session_id, nextNode, parent_id,
                                        role, content, similarity)
         /\ tasks' = ScheduleTask(tasks, nextNode, similarity)
    /\ nextNode' = nextNode + 1
    /\ UNCHANGED <<nextSession, turn, chainResult, causal, collection, kb_docs, kbCall, sessions, sessionCall>>

\* ---- StateManager._coarse_grain_node ----
CoarseGrainStart_Placeholder(n) ==
    /\ n \in DOMAIN tasks /\ tasks[n].pc = "scheduled"
    /\ Stored(messages, n)
    /\ tasks' = [tasks EXCEPT ![n].pc = "awaiting"]
    /\ messages' = [messages EXCEPT ![n].summary = Some(<<"[pending]">>)]
    /\ UNCHANGED <<nextNode, nextSession, turn, chainResult, causal, collection, kb_docs, kbCall, sessions, sessionCall>>

CoarseGrainStart_ReturnsWithParent(n) ==
    /\ n \in DOMAIN tasks /\ tasks[n].pc = "scheduled"
    /\ tasks' = [tasks EXCEPT ![n] =
         IF ~Stored(messages, n) \/ messages[n].parent_id # NoId
         THEN [@ EXCEPT !.pc = "returned"]
         ELSE [@ EXCEPT !.pc = "failed"]]
    /\ UNCHANGED <<messages, nextNode, nextSession, turn, chainResult, causal, collection, kb_docs, kbCall, sessions, sessionCall>>

\* up to the await: read the node and its parent, build the prompt
CoarseGrainStart(n) ==
    /\ n \in DOMAIN tasks /\ tasks[n].pc = "scheduled"
    /\ tasks' = [tasks EXCEPT ![n] =
         IF ~Stored(messages, n) \/ messages[n].parent_id = NoId
         THEN [@ EXCEPT !.pc = "returned"]
         ELSE IF ~Stored(messages, messages[n].parent_id)
         THEN [@ EXCEPT !.pc = "failed"]
         ELSE [@ EXCEPT !.pc = "awaiting",
                        !.parent_content = messages[messages[n].parent_id].content,
                        !.child_content = messages[n].content]]
    /\ UNCHANGED <<messages, nextNode, nextSession, turn, chainResult, causal, collection, kb_docs, kbCall, sessions, sessionCall>>

CoarseGrainFinish_ReplacesContent(n) ==
    /\ n \in DOMAIN tasks /\ tasks[n].pc = "awaiting"
    /\ \E resp \in Responses :
         LET summary == generate_fast_summary(resp) IN
         /\ messages' = IF Stored(messages, n)
                        THEN [messages EXCEPT ![n].content = summary, ![n].summary = Some(summary)]
                        ELSE messages
         /\ tasks' = [tasks EXCEPT ![n].pc = "done", ![n].outcome = resp.kind,
                                   ![n].result = Some(summary)]
    /\ UNCHANGED <<nextNode, nextSession, turn, chainResult, causal, collection, kb_docs, kbCall, sessions, sessionCall>>

\* the summarizer answers: node.summary = summary; db.commit()
CoarseGrainFinish(n) ==
    /\ n \in DOMAIN tasks /\ tasks[n].pc = "awaiting"
    /\ \E resp \in Responses :
         LET summary == generate_fast_summary(resp) IN
         IF Stored(messages, n)
         THEN /\ messages' = [messages EXCEPT ![n].summary = Some(summary)]
              /\ tasks' = [tasks EXCEPT ![n].pc = "done", ![n].outcome = resp.kind,
                                        ![n].result = Some(summary)]
         ELSE \* the row was deleted during the await: the commit raises, line 102
              /\ messages' = messages
              /\ tasks' = [tasks EXCEPT ![n].pc = "failed"]
    /\ UNCHANGED <<nextNode, nextSession, turn, chainResult, causal, collection, kb_docs, kbCall, sessions, sessionCall>>

\* ---- chat.py chat_endpoint ----
\* lines 80-120: the input is classified as an injection, or no API key is
\* configured: HTTP 400 before anything is read or written
TurnReject(t) ==
    /\ turn[t].pc = "idle"
    /\ \A u \in 1..(t - 1) : turn[u].pc # "idle"
    /\ \E verdict \in Verdicts, api_key \in BOOLEAN :
         /\ Blocked(verdict) \/ ~api_key
         /\ turn' = [turn EXCEPT ![t] = [IdleTurn EXCEPT !.pc = "rejected", !.status = 400,
                                                        !.verdict = verdict]]
    /\ UNCHANGED <<messages, nextNode, nextSession, tasks, chainResult, causal, collection, kb_docs, kbCall, sessions, sessionCall>>

\* lines 122-149, for an input that passes the checks: the chain of the
\* parent is read, the user node is created, the vector query is awaited
TurnBegin(t) ==
    /\ turn[t].pc = "idle"
    /\ nextNode + Reserved + 1 <= MaxNodes
    /\ \A u \in 1..(t - 1) : turn[u].pc # "idle"
    /\ \E given \in {NoSession} \cup SessionChoices, parent \in ParentChoices,
          content \in UserTexts, verdict \in {v \in Verdicts : ~Blocked(v)} :
       \E sim \in IF parent # NoId /\ Stored(messages, parent) THEN SimChoices ELSE {0},
          history \in IF parent # NoId THEN {<<>>} ELSE Histories :
         LET session_id == IF given = NoSession THEN nextSession ELSE given
             walk == get_context_chain(messages, parent)
             similarity == CreateSimilarity(messages, parent, sim)
             req == [IdleTurn EXCEPT !.verdict = verdict,
                                     !.session_id = session_id,
                                     !.session_given = (given # NoSession),
                                     !.messages_to_send =
                                         IF parent # NoId THEN walk.chain ELSE history]
         IN
         IF parent # NoId /\ walk.status = "diverges"
         THEN /\ turn' = [turn EXCEPT ![t] = [req EXCEPT !.pc = "hung"]]
              /\ UNCHANGED <<messages, nextNode, nextSession, tasks, chainResult, causal, collection, kb_docs, kbCall, sessions, sessionCall>>
         ELSE /\ messages' = CreateNodeStore(messages, session_id, nextNode, parent,
                                             "user", content, similarity)
              /\ tasks' = ScheduleTask(tasks, nextNode, similarity)
              /\ nextNode' = nextNode + 1
              /\ nextSession' = IF given = NoSession THEN nextSession + 1 ELSE nextSession
              /\ turn' = [turn EXCEPT ![t] =
                    [req EXCEPT !.pc = "query",
                                !.user_node_id = nextNode,
                                !.trace = <<"user_commit", "query">>]]
              /\ UNCHANGED <<chainResult, causal, collection, kb_docs, kbCall, sessions, sessionCall>>

\* the vector query returns, or raises: nothing around line 149 catches it and
\* the request ends with 500; then line 195 mints the assistant id.
\* uuid is a local of chat_endpoint bound only by the import at line 73, so
\* with a session_id in the request line 195 raises UnboundLocalError.
QueryReturn(t) ==
    /\ turn[t].pc = "query"
    /\ \E ok \in BOOLEAN :
         IF ~ok \/ turn[t].session_given
         THEN /\ turn' = [turn EXCEPT ![t].pc = "failed", ![t].status = 500,
                                      ![t].verdict = NoVerdict,
                                      ![t].messages_to_send = <<>>,
                                      ![t].trace = IF ok THEN @ ELSE Append(@, "query_error")]
              /\ UNCHANGED nextNode
         ELSE /\ turn' = [turn EXCEPT ![t].pc = "llm1", ![t].status = 200,
                                      ![t].verdict = NoVerdict,
                                      ![t].ai_node_id = nextNode]
              /\ nextNode' = nextNode + 1
    /\ UNCHANGED <<messages, nextSession, tasks, chainResult, causal, collection, kb_docs, kbCall, sessions, sessionCall>>

\* ---- event_generator ----
Finish_ErrorAfterTokens(tr, in_except) ==
    LET said == IF in_except
                THEN [tr EXCEPT !.body = Append(@, ErrorSentence(tr.err))]
                ELSE tr
    IN IF ShouldPersist(said)
       THEN [said EXCEPT !.pc = "done", !.err = "", !.messages_to_send = <<>>,
                         !.trace = Append(@, "assistant_commit")]
       ELSE [said EXCEPT !.pc = "done", !.err = "", !.messages_to_send = <<>>]

\* lines 255-285: the error sentence if nothing was output, then the save
Finish(tr, in_except) ==
    LET said == IF in_except /\ tr.full_response = <<>>
                THEN [tr EXCEPT !.body = Append(@, ErrorSentence(tr.err))]
                ELSE tr
    IN IF ShouldPersist(said)
       THEN [said EXCEPT !.pc = "done", !.err = "", !.messages_to_send = <<>>,
                         !.trace = Append(@, "assistant_commit")]
       ELSE [said EXCEPT !.pc = "done", !.err = "", !.messages_to_send = <<>>]

FinishStore(msgs, tr) ==
    IF ShouldPersist(tr) THEN msgs @@ (tr.ai_node_id :> AssistantMessage(tr)) ELSE msgs

\* lines 219-253: an error of the first attempt; the fallback call is awaited
\* when the text names the system message, whatever was already streamed
Except1(tr, e) ==
    IF e = "system_message"
    THEN [tr EXCEPT !.pc = "llm2", !.err = e, !.llm_failed = TRUE]
    ELSE Finish([tr EXCEPT !.err = e, !.llm_failed = TRUE], TRUE)

\* the messages argument of the call a turn is awaiting or streaming from
current_messages(tr) ==
    LET first == LLMMessages(tr.messages_to_send, messages[tr.user_node_id].content)
    IN IF tr.pc \in {"llm1", "stream1"} THEN first ELSE fallback_messages(first)

\* await client.chat.completions.create(...) answers or raises
LLMCreate(t) ==
    /\ turn[t].pc \in {"llm1", "llm2"}
    /\ \E outcome \in {"ok"} \cup ErrKinds :
         LET tr == turn[t]
             after == IF outcome = "ok"
                      THEN [tr EXCEPT !.pc = IF tr.pc = "llm1" THEN "stream1" ELSE "stream2"]
                      ELSE IF tr.pc = "llm1" THEN Except1(tr, outcome)
                      ELSE Finish([tr EXCEPT !.err = outcome, !.llm_failed = TRUE], TRUE)
         IN /\ turn' = [turn EXCEPT ![t] = after]
            /\ messages' = IF after.pc = "done" THEN FinishStore(messages, after) ELSE messages
    /\ UNCHANGED <<nextNode, nextSession, tasks, chainResult, causal, collection, kb_docs, kbCall, sessions, sessionCall>>

ForwardChunk_Prepend(tr, c) ==
    IF c = EmptyChunk THEN tr
    ELSE [tr EXCEPT !.full_response = c \o @,
                    !.body = Append(@, TokenItem(c, IF tr.pc = "stream1" THEN 1 ELSE 2)),
                    !.trace = Append(@, "token")]

\* async for chunk in stream: a chunk with text is buffered and yielded
ForwardChunk(tr, c) ==
    IF c = EmptyChunk THEN tr
    ELSE [tr EXCEPT !.full_response = @ \o c,
                    !.body = Append(@, TokenItem(c, IF tr.pc = "stream1" THEN 1 ELSE 2)),
                    !.trace = Append(@, "token")]

StreamChunk(t) ==
    /\ turn[t].pc \in {"stream1", "stream2"}
    /\ Len(turn[t].body) < MaxChunks
    /\ \E c \in {Chunk(Len(turn[t].body) + 1), EmptyChunk} :
         turn' = [turn EXCEPT ![t] = ForwardChunk(turn[t], c)]
    /\ UNCHANGED <<messages, nextNode, nextSession, tasks, chainResult, causal, collection, kb_docs, kbCall, sessions, sessionCall>>

\* the stream is exhausted
StreamEnd(t) ==
    /\ turn[t].pc \in {"stream1", "stream2"}
    /\ LET after == Finish(turn[t], turn[t].pc = "stream2") IN
         /\ turn' = [turn EXCEPT ![t] = after]
         /\ messages' = FinishStore(messages, after)
    /\ UNCHANGED <<nextNode, nextSession, tasks, chainResult, causal, collection, kb_docs, kbCall, sessions, sessionCall>>

\* the stream raises between chunks
StreamError(t) ==
    /\ turn[t].pc \in {"stream1", "stream2"}
    /\ \E e \in ErrKinds :
         LET tr == turn[t]
             after == IF tr.pc = "stream1" THEN Except1(tr, e)
                      ELSE Finish([tr EXCEPT !.err = e, !.llm_failed = TRUE], TRUE)
         IN /\ turn' = [turn EXCEPT ![t] = after]
            /\ messages' = IF after.pc = "done" THEN FinishStore(messages, after) ELSE messages
    /\ UNCHANGED <<nextNode, nextSession, tasks, chainResult, causal, collection, kb_docs, kbCall, sessions, sessionCall>>

\* the client disconnects: the generator is cancelled where it is suspended,
\* which no except clause of event_generator catches (CancelledError and
\* GeneratorExit are not Exceptions); its locals are gone, the ids remain
Disconnect(t) ==
    /\ turn[t].pc \in {"llm1", "stream1", "llm2", "stream2"}
    /\ turn' = [turn EXCEPT ![t] =
         [IdleTurn EXCEPT !.pc = "cancelled", !.status = 200,
                          !.session_id = turn[t].session_id,
                          !.user_node_id = turn[t].user_node_id,
                          !.ai_node_id = turn[t].ai_node_id]]
    /\ UNCHANGED <<messages, nextNode, nextSession, tasks, chainResult, causal, collection, kb_docs, kbCall, sessions, sessionCall>>

\* ---- get_context_chain on an arbitrary messages table ----
\* parent_id is a plain column: the foreign key is not enforced by SQLite and
\* rows are also written without create_node (tests, scripts/seed_research_data.py),
\* so the walk is applied here to every table of MaxChainNodes rows.
InitChain ==
    /\ \E par \in [1..MaxChainNodes -> 0..MaxChainNodes] :
         messages = [n \in 1..MaxChainNodes |->
                        NewMessage(1, n, par[n], "user", <<"hi">>, 0, 0)]
    /\ nextNode = MaxChainNodes + 1
    /\ nextSession = Cardinality(ClientSessions) + 1
    /\ tasks = <<>>
    /\ turn = [t \in Turns |-> IdleTurn]
    /\ chainResult = NoChain
    /\ causal = NoCausal
    /\ collection = <<>>
    /\ kb_docs = <<>>
    /\ kbCall = NoKbCall
    /\ sessions = {}
    /\ sessionCall = NoSessionCall

ReadChain ==
    /\ \E leaf \in DOMAIN messages :
         chainResult' = [get_context_chain(messages, leaf) EXCEPT !.leaf = leaf]
    /\ UNCHANGED <<messages, nextNode, nextSession, tasks, turn, causal, collection, kb_docs, kbCall, sessions, sessionCall>>

NextChain == ReadChain

SpecChain == InitChain /\ [][NextChain]_vars

\* ---- _coarse_grain_node on an arbitrary messages table ----
\* The method takes any node id.  create_node starts it once per node; here
\* it is applied, any number of times, to the rows of a table whose rows may
\* already carry a summary.
InitCoarse ==
    /\ \E par \in [1..MaxChainNodes -> 0..(MaxChainNodes - 1)],
          sm \in [1..MaxChainNodes -> {Null, Some(<<"old">>)}] :
         /\ \A n \in 1..MaxChainNodes : par[n] < n
         /\ messages = [n \in 1..MaxChainNodes |->
                          [NewMessage(1, n, par[n], "user", <<"hi">>, 0,
                                      IF par[n] = NoId THEN 0 ELSE 41)
                             EXCEPT !.summary = sm[n]]]
    /\ nextNode = MaxChainNodes + 1
    /\ nextSession = Cardinality(ClientSessions) + 1
    /\ tasks = <<>>
    /\ turn = [t \in Turns |-> IdleTurn]
    /\ chainResult = NoChain
    /\ causal = NoCausal
    /\ collection = <<>>
    /\ kb_docs = <<>>
    /\ kbCall = NoKbCall
    /\ sessions = {}
    /\ sessionCall = NoSessionCall

\* asyncio.create_task(self._coarse_grain_node(node_id)), or a direct await
\* of it, while no run for that node is in flight
CoarseGrainCall(n) ==
    /\ Stored(messages, n)
    /\ n \in DOMAIN tasks => tasks[n].pc \notin {"scheduled", "awaiting"}
    /\ tasks' = (n :> [pc |-> "scheduled", parent_content |-> <<>>,
                       child_content |-> <<>>, outcome |-> "", result |-> Null]) @@ tasks
    /\ UNCHANGED <<messages, nextNode, nextSession, turn, chainResult, causal, collection, kb_docs, kbCall, sessions, sessionCall>>

NextCoarse ==
    \/ \E n \in DOMAIN messages : CoarseGrainCall(n)
    \/ \E n \in DOMAIN messages : CoarseGrainStart(n)
    \/ \E n \in DOMAIN messages : CoarseGrainFinish(n)

SpecCoarse == InitCoarse /\ [][NextCoarse]_vars

\* ---- verify_mechanisms on the inputs a caller can give it ----
CandidateLists == UNION {[1..k -> ChunkTexts] : k \in 0..MaxCands}

InitCausal ==
    /\ \E nlp \in BOOLEAN, graph \in Graphs, query \in QueryTexts,
          context_chunks \in CandidateLists :
         causal = [NoCausal EXCEPT !.pc = "called", !.nlp = nlp, !.graph = graph,
                                   !.query = query, !.context_chunks = context_chunks]
    /\ messages = <<>>
    /\ nextNode = 1
    /\ nextSession = Cardinality(ClientSessions) + 1
    /\ tasks = <<>>
    /\ turn = [t \in Turns |-> IdleTurn]
    /\ chainResult = NoChain
    /\ collection = <<>>
    /\ kb_docs = <<>>
    /\ kbCall = NoKbCall
    /\ sessions = {}
    /\ sessionCall = NoSessionCall

VerifyMechanisms ==
    /\ causal.pc = "called"
    /\ causal' = [causal EXCEPT !.pc = "returned",
                                !.result = verify_mechanisms(causal.nlp, causal.graph,
                                                             causal.query, causal.context_chunks),
                                !.scores = score_chunks(causal.nlp, causal.graph,
                                                         causal.query, causal.context_chunks)]
    /\ UNCHANGED <<messages, nextNode, nextSession, tasks, turn, chainResult,
                   collection, kb_docs, kbCall, sessions, sessionCall>>

NextCausal == VerifyMechanisms

SpecCausal == InitCausal /\ [][NextCausal]_vars

\* ---- the knowledge base: upload_document (chat.py), delete_kb_doc (admin.py) ----
\* The vector index is read by a turn only through the query, which the turn
\* model above keeps as an answer or a failure; the calls that change the
\* index are followed here on their own.
\* kb_docs is the knowledge_docs table: the content of every document by its
\* id; kbCall is the last call, with what it returned (for a delete: the ids
\* it removed).
\* KnowledgeDoc.id is an INTEGER PRIMARY KEY: SQLite gives the largest id + 1
NextDocId == IF DOMAIN kb_docs = {} THEN 1
             ELSE (CHOOSE d \in DOMAIN kb_docs : \A e \in DOMAIN kb_docs : e <= d) + 1

\* chat.py 355-367: the KnowledgeDoc row is committed, then add_document
\* splits the text and adds the chunks under source_id = str(kb_doc.id)
Upload(text) ==
    /\ NextDocId \in DocIds
    /\ LET doc_id == NextDocId
           split == split_document(doc_id, text, Metadata("f", doc_id))
           added == collection_add(collection, split.chunks)
           ok == split.status = "done" /\ DOMAIN added = DOMAIN collection \cup
                                              {split.chunks[i].id : i \in 1..Len(split.chunks)}
       IN /\ kb_docs' = [d \in DOMAIN kb_docs \cup {doc_id} |->
                            IF d = doc_id THEN text ELSE kb_docs[d]]
          /\ collection' = IF split.status = "done" THEN added ELSE collection
          /\ kbCall' = [NoKbCall EXCEPT !.op = "add", !.doc_id = doc_id, !.text = text,
                                        !.status = IF ok THEN "done"
                                                   ELSE IF split.status = "done" THEN "error"
                                                   ELSE split.status,
                                        !.chunks = split.chunks]
    /\ UNCHANGED <<messages, nextNode, nextSession, tasks, turn, chainResult, causal,
                   sessions, sessionCall>>

\* admin.py 72-82: delete_document(str(doc_id)) for a document that exists
DeleteKbDoc(doc_id) ==
    /\ doc_id \in DOMAIN kb_docs
    /\ collection' = delete_document(collection, doc_id)
    /\ kb_docs' = [d \in DOMAIN kb_docs \ {doc_id} |-> kb_docs[d]]
    /\ kbCall' = [NoKbCall EXCEPT !.op = "delete", !.doc_id = doc_id, !.status = "done",
                                  !.result = DOMAIN collection \ DOMAIN collection']
    /\ UNCHANGED <<messages, nextNode, nextSession, tasks, turn, chainResult, causal,
                   sessions, sessionCall>>

\* query_knowledge up to line 93
QueryKnowledge ==
    /\ \E result \in QueryResults(collection, n_results) :
         kbCall' = [NoKbCall EXCEPT !.op = "query", !.status = "done", !.result = result]
    /\ UNCHANGED <<messages, nextNode, nextSession, tasks, turn, chainResult, causal,
                   collection, kb_docs, sessions, sessionCall>>

NextKB ==
    \/ \E text \in KBTexts : Upload(text)
    \/ \E doc_id \in DocIds : DeleteKbDoc(doc_id)
    \/ QueryKnowledge

SpecKB == Init /\ [][NextKB]_vars

\* ---- add_document on the texts of Texts, each into an empty index ----
UploadFirst(text) == DOMAIN kb_docs = {} /\ DOMAIN collection = {} /\ Upload(text)

NextChunk == \E text \in Texts : UploadFirst(text)

SpecChunk == Init /\ [][NextChunk]_vars

\* ---- query_knowledge's string and the split of chat.py:154 ----
\* Here a chunk text is the sequence of its characters.
Delimiter == <<"-", "-", "-">>
Whitespace == {" ", "\n"}
DocStrings ==
    {<<"a">>, <<" ", "a">>, <<"a", "\n">>, <<"a", " ", "b">>, <<"a", "-">>,
     <<"\n">>, <<"-", "-", "-">>, <<"a", "-", "-", "-", "b">>}
RetrievedLists == UNION {[1..k -> DocStrings] : k \in 0..MaxRetrieved}

\* knowledge_service.py 96-100: context += f"{doc}\n---\n" for every document
RECURSIVE format_context(_)
format_context(docs) ==
    IF docs = <<>> THEN <<>>
    ELSE Head(docs) \o <<"\n">> \o Delimiter \o <<"\n">> \o format_context(Tail(docs))

\* str.split(sep): cut at every occurrence of sep, found from the left
RECURSIVE str_split(_, _)
str_split(s, sep) ==
    LET at == {i \in 1..(Len(s) - Len(sep) + 1) : SubSeq(s, i, i + Len(sep) - 1) = sep}
    IN IF at = {} THEN <<s>>
       ELSE LET i == CHOOSE k \in at : \A m \in at : k <= m
            IN <<SubSeq(s, 1, i - 1)>> \o str_split(SubSeq(s, i + Len(sep), Len(s)), sep)

\* str.strip()
strip(s) ==
    LET inked == {i \in 1..Len(s) : s[i] \notin Whitespace}
    IN IF inked = {} THEN <<>>
       ELSE SubSeq(s, CHOOSE k \in inked : \A m \in inked : k <= m,
                      CHOOSE k \in inked : \A m \in inked : m <= k)

\* chat.py 154: [c.strip() for c in raw_context_list.split("---") if c.strip()]
split_context(raw_context_list) ==
    LET parts == str_split(raw_context_list, Delimiter)
        stripped == [i \in 1..Len(parts) |-> strip(parts[i])]
        NotEmpty(c) == c # <<>>
    IN SelectSeq(stripped, NotEmpty)

\* the query has retrieved some chunk texts, in the order of their distance
InitSplit ==
    /\ \E docs \in RetrievedLists :
         kbCall = [NoKbCall EXCEPT !.op = "retrieved", !.chunks = docs]
    /\ messages = <<>>
    /\ nextNode = 1
    /\ nextSession = Cardinality(ClientSessions) + 1
    /\ tasks = <<>>
    /\ turn = [t \in Turns |-> IdleTurn]
    /\ chainResult = NoChain
    /\ causal = NoCausal
    /\ collection = <<>>
    /\ kb_docs = <<>>
    /\ sessions = {}
    /\ sessionCall = NoSessionCall

\* query_knowledge returns its string and chat_endpoint splits it
SplitContext ==
    /\ kbCall.op = "retrieved"
    /\ kbCall' = [kbCall EXCEPT !.op = "split",
                                !.result = split_context(format_context(kbCall.chunks))]
    /\ UNCHANGED <<messages, nextNode, nextSession, tasks, turn, chainResult, causal,
                   collection, kb_docs, sessions, sessionCall>>

NextSplit == SplitContext

SpecSplit == InitSplit /\ [][NextSplit]_vars

\* ---- sessions: create_chat_session, delete_chat_session (db_service.py) ----
\* They are followed together with everything that creates nodes.
CreateChatSession(session_id) ==
    /\ session_id \notin sessions
    /\ sessions' = sessions \cup {session_id}
    /\ UNCHANGED <<messages, nextNode, nextSession, tasks, turn, chainResult, causal,
                   collection, kb_docs, kbCall, sessionCall>>

\* lines 65-73: the rows go only if the sessions table has a row for the id
DeleteChatSession(session_id) ==
    /\ IF session_id \in sessions
       THEN /\ sessions' = sessions \ {session_id}
            /\ messages' = delete_cascade(messages, session_id)
            /\ sessionCall' = [op |-> "delete", session_id |-> session_id, result |-> TRUE]
       ELSE /\ sessionCall' = [op |-> "delete", session_id |-> session_id, result |-> FALSE]
            /\ UNCHANGED <<messages, sessions>>
    /\ UNCHANGED <<nextNode, nextSession, tasks, turn, chainResult, causal,
                   collection, kb_docs, kbCall>>

Next ==
    \/ CreateNodeCall
    \/ \E n \in NodeIds : CoarseGrainStart(n)
    \/ \E n \in NodeIds : CoarseGrainFinish(n)
    \/ \E t \in Turns : TurnReject(t)
    \/ \E t \in Turns : TurnBegin(t)
    \/ \E t \in Turns : QueryReturn(t)
    \/ \E t \in Turns : LLMCreate(t)
    \/ \E t \in Turns : StreamChunk(t)
    \/ \E t \in Turns : StreamEnd(t)
    \/ \E t \in Turns : StreamError(t)
    \/ \E t \in Turns : Disconnect(t)

Spec == Init /\ [][Next]_vars

NextSession ==
    \/ Next
    \/ \E session_id \in SessionChoices : CreateChatSession(session_id)
    \/ \E session_id \in SessionChoices : DeleteChatSession(session_id)

SpecSession == Init /\ [][NextSession]_vars

\* The event loop runs every task that is ready, and the summarizer's HTTP
\* call returns: a coarse-graining task that can take its next step takes it.
CoarseGrainStep == \E n \in NodeIds : CoarseGrainStart(n) \/ CoarseGrainFinish(n)

SpecLive == Init /\ [][Next]_vars /\ WF_vars(CoarseGrainStep)

\* ======================= properties =======================

\* the stored nodes reached from the nodes of S along parent pointers (S included)
RECURSIVE UpClosure(_, _)
UpClosure(msgs, S) ==
    LET S2 == S \cup ({msgs[y].parent_id : y \in S} \cap DOMAIN msgs)
    IN IF S2 = S THEN S ELSE UpClosure(msgs, S2)

\* the number of stored ancestors of x
Depth(msgs, x) == Cardinality(UpClosure(msgs, {x})) - 1

\* x lies on a cycle of parent pointers, or reaches one
ReachesCycle(msgs, x) ==
    \E y \in UpClosure(msgs, {x}) :
        Stored(msgs, msgs[y].parent_id) /\ y \in UpClosure(msgs, {msgs[y].parent_id})

IsInjective(s) == \A i, j \in 1..Len(s) : s[i] = s[j] => i = j

\* the texts of the token items of a stream body, joined in order
RECURSIVE TokenText(_)
TokenText(body) ==
    IF body = <<>> THEN <<>>
    ELSE IF body[1].kind = "token" THEN body[1].text \o TokenText(Tail(body))
    ELSE TokenText(Tail(body))

Tokens(body) == {i \in 1..Len(body) : body[i].kind = "token"}
Errors(body) == {i \in 1..Len(body) : body[i].kind = "error"}
Positions(trace, e) == {i \in 1..Len(trace) : trace[i] = e}

\* C1: for every stored node x, get_context_chain(x) returns and has one
\* entry per stored node on the parent-pointer path that ends in x: as many
\* entries as x has stored ancestors plus one, the topmost node first (its
\* parent is null or not stored), each next node the child of the one
\* before, x last, and no node twice; whichever nodes carry summaries.
C1_ChainIsPathFromRoot ==
    \A x \in DOMAIN messages :
        LET r == get_context_chain(messages, x)
            n == Len(r.chain)
        IN /\ r.status = "returned"
           /\ n = Depth(messages, x) + 1
           /\ Len(r.visited) = n
           /\ r.visited[n] = x
           /\ ~Stored(messages, messages[r.visited[1]].parent_id)
           /\ \A i \in 1..(n - 1) : messages[r.visited[i + 1]].parent_id = r.visited[i]
           /\ IsInjective(r.visited)
           /\ {r.visited[i] : i \in 1..n} = UpClosure(messages, {x})
           /\ \A i \in 1..n :
                /\ r.chain[i].role = messages[r.visited[i]].role
                /\ \/ r.chain[i].content = messages[r.visited[i]].content
                   \/ Some(r.chain[i].content) = messages[r.visited[i]].summary

C1_Witness ==
    \E x \in DOMAIN messages :
        LET r == get_context_chain(messages, x) IN
        /\ Len(r.chain) = 3
        /\ \E i \in 1..2 : Truthy(messages[r.visited[i]].summary)
        /\ r.chain[1] # r.chain[3]

\* C2: on every returned chain, the entry of a node whose summary is set
\* (not null) carries the summary, the entry of a node without a summary
\* carries the content, and the role is the node's role.
C2_SummarySupersedesContent ==
    \A x \in DOMAIN messages :
        LET r == get_context_chain(messages, x) IN
        \A i \in 1..Len(r.chain) :
            LET m == messages[r.visited[i]] IN
            /\ r.chain[i].role = m.role
            /\ m.summary # Null => r.chain[i].content = m.summary[1]
            /\ m.summary = Null => r.chain[i].content = m.content

\* C3: get_context_chain terminates on every table, and when the parent
\* pointers reached from the leaf contain a cycle it fails with CycleDetected.
C3_CycleDetected ==
    chainResult.status # "none" =>
        /\ chainResult.status \in {"returned", "CycleDetected"}
        /\ ReachesCycle(messages, chainResult.leaf) => chainResult.status = "CycleDetected"

\* C4: every stored node with a parent_id has a stored parent of its own session.
C4_ParentInSameSession ==
    \A n \in DOMAIN messages :
        messages[n].parent_id # NoId =>
            /\ Stored(messages, messages[n].parent_id)
            /\ messages[messages[n].parent_id].session_id = messages[n].session_id

\* C5: create_node persists no node and schedules no task when its parent_id
\* names no stored node or a node of another session: a row that create_node
\* adds (under the id it has just minted) has no parent or a parent that was
\* stored, in the same session, when it was called.
C5_CreateNodeValidatesParent ==
    [][(nextNode' = nextNode + 1 /\ nextNode \in DOMAIN messages') =>
          LET row == messages'[nextNode] IN
          \/ row.parent_id = NoId
          \/ /\ Stored(messages, row.parent_id)
             /\ messages[row.parent_id].session_id = row.session_id]_vars

\* C6: whenever a reader runs get_context_chain, every row it reads is a
\* committed one: the row carries its own id, its similarity is set, and its
\* summary is either still null or the complete text the summarizer returned
\* to the finished task of that node; the entry is built from that row.
C6_ReadersSeeCommittedRows ==
    \A x \in DOMAIN messages :
        LET r == get_context_chain(messages, x) IN
        \A i \in 1..Len(r.visited) :
            LET n == r.visited[i]
                m == messages[n]
            IN /\ m.node_id = n
               /\ m.role \in Roles
               /\ m.similarity_to_parent \in 0..100
               /\ \/ m.summary = Null
                  \/ /\ n \in DOMAIN tasks
                     /\ tasks[n].pc = "done"
                     /\ tasks[n].result = m.summary
               /\ r.chain[i].role = m.role
               /\ \/ r.chain[i].content = m.content
                  \/ m.summary # Null /\ r.chain[i].content = m.summary[1]

C6_Witness ==
    \E x \in DOMAIN messages, n \in DOMAIN tasks :
        LET r == get_context_chain(messages, x) IN
        /\ Len(r.visited) = 2
        /\ r.visited[2] = n
        /\ tasks[n].pc = "awaiting"
        /\ messages[n].summary = Null
        /\ \E t \in Turns : turn[t].pc = "stream1"

\* C7: in every turn the user node is committed before the vector query is
\* issued, the query before the first token is forwarded, and the assistant
\* node is committed after the last forwarded token; the assistant node's
\* parent is the user node of the same turn.
C7_TurnOrder ==
    \A t \in Turns :
        LET tr == turn[t]
            uc == Positions(tr.trace, "user_commit")
            q == Positions(tr.trace, "query")
            tk == Positions(tr.trace, "token")
            ac == Positions(tr.trace, "assistant_commit")
        IN /\ \A j \in q : \E i \in uc : i < j
           /\ \A j \in tk : (\E i \in q : i < j) /\ (\E i \in uc : i < j)
           /\ (q # {} \/ tk # {}) => Stored(messages, tr.user_node_id)
           /\ \A i \in ac : i = Len(tr.trace) /\ \A j \in tk : j < i
           /\ Cardinality(tk) = Cardinality(Tokens(tr.body))
           /\ (tr.ai_node_id # NoId /\ Stored(messages, tr.ai_node_id)) =>
                 /\ ac # {}
                 /\ messages[tr.ai_node_id].parent_id = tr.user_node_id
                 /\ messages[tr.ai_node_id].role = "assistant"
                 /\ messages[tr.user_node_id].role = "user"

C7_Witness ==
    \E t \in Turns :
        /\ turn[t].trace = <<"user_commit", "query", "token", "token", "assistant_commit">>
        /\ Stored(messages, turn[t].ai_node_id)
        /\ messages[turn[t].user_node_id].parent_id # NoId

\* C8: no stored node has a pre-minted assistant id and empty content: the
\* assistant node of a turn is stored only if a token was forwarded in it.
C8_NoEmptyAssistantNode ==
    \A t \in Turns :
        (turn[t].ai_node_id # NoId /\ Stored(messages, turn[t].ai_node_id)) =>
            /\ messages[turn[t].ai_node_id].content # <<>>
            /\ Tokens(turn[t].body) # {}

C8_Witness ==
    \E t \in Turns :
        /\ turn[t].pc = "done"
        /\ turn[t].ai_node_id # NoId
        /\ Tokens(turn[t].body) = {}
        /\ ~Stored(messages, turn[t].ai_node_id)

\* C9: the content of a persisted assistant node is the in-order
\* concatenation of exactly the token chunks forwarded in its turn; error
\* sentences are not part of it.
C9_ContentIsForwardedText ==
    \A t \in Turns :
        (turn[t].ai_node_id # NoId /\ Stored(messages, turn[t].ai_node_id)) =>
            messages[turn[t].ai_node_id].content = TokenText(turn[t].body)

C9_Witness ==
    \E t \in Turns :
        /\ Stored(messages, turn[t].ai_node_id)
        /\ messages[turn[t].ai_node_id].content = Chunk(1) \o Chunk(2)
        /\ turn[t].llm_failed

\* C10: a turn whose LLM failed and that ended without a forwarded token has
\* a body of exactly one error sentence and no assistant node; a body with a
\* token never has an error sentence.
C10_ErrorSentence ==
    \A t \in Turns :
        LET tr == turn[t] IN
        /\ Tokens(tr.body) # {} => Errors(tr.body) = {}
        /\ Cardinality(Errors(tr.body)) <= 1
        /\ (tr.pc = "done" /\ tr.llm_failed /\ Tokens(tr.body) = {}) =>
              /\ Len(tr.body) = 1
              /\ tr.body[1].kind = "error"
              /\ ~Stored(messages, tr.ai_node_id)

C10_Witness ==
    \E t \in Turns :
        /\ turn[t].pc = "done"
        /\ turn[t].llm_failed
        /\ turn[t].body = <<ErrorSentence("other")>>
        /\ ~Stored(messages, turn[t].ai_node_id)

\* text sub occurs in text as a run of consecutive words
Contains(text, sub) ==
    \E i \in 1..(Len(text) - Len(sub) + 1) : SubSeq(text, i, i + Len(sub) - 1) = sub

\* C11: the call re-issued after a "system message" rejection gets a list
\* without any system-role message whose first message has the role user and
\* carries the system text, followed by the other non-system messages of the
\* first call in their order; and a turn that has run to its end with a token
\* streamed by the retry has its assistant node stored under the pre-minted
\* id of the X-Assistant-Node-ID header, with the turn's user node as parent.
C11_RetryWithoutSystemRole ==
    \A t \in Turns :
        LET tr == turn[t]
            retried == {i \in Tokens(tr.body) : tr.body[i].attempt = 2}
        IN /\ tr.pc \in {"llm2", "stream2"} =>
                LET fm == current_messages(tr)
                    NotSystem(m) == m.role # "system"
                    kept == SelectSeq(LLMMessages(tr.messages_to_send,
                                                  messages[tr.user_node_id].content), NotSystem)
                IN /\ \A i \in 1..Len(fm) : fm[i].role # "system"
                   /\ fm[1].role = "user"
                   /\ Contains(fm[1].content, SystemText)
                   /\ \A i \in 1..Len(kept) :
                        LET m == fm[Len(fm) - Len(kept) + i] IN
                        /\ m.role = kept[i].role
                        /\ Contains(m.content, kept[i].content)
           /\ (tr.pc = "done" /\ retried # {}) =>
                /\ tr.ai_node_id # NoId /\ Stored(messages, tr.ai_node_id)
                /\ messages[tr.ai_node_id].node_id = tr.ai_node_id
                /\ messages[tr.ai_node_id].parent_id = tr.user_node_id
                /\ messages[tr.ai_node_id].role = "assistant"

C11_Witness ==
    \E t \in Turns :
        /\ turn[t].pc = "done"
        /\ turn[t].trace = <<"user_commit", "query", "token", "assistant_commit">>
        /\ turn[t].body[1].attempt = 2
        /\ messages[turn[t].user_node_id].parent_id # NoId
        /\ Stored(messages, turn[t].ai_node_id)
\* C12: for a turn that has run to its end with a token streamed, the chain
\* of the assistant node is the chain of the request's parent_node_id, then
\* the entry {user, user_content} of the user node, then {assistant, the
\* streamed text}; without parent_node_id it has exactly 2 entries.
C12_ChainExtendsParentChain ==
    \A t \in Turns :
        LET tr == turn[t] IN
        (tr.pc = "done" /\ Tokens(tr.body) # {}) =>
            LET user == messages[tr.user_node_id]
                got == get_context_chain(messages, tr.ai_node_id)
                base == get_context_chain(messages, user.parent_id)
            IN /\ got.status = "returned"
               /\ got.chain = base.chain
                                \o <<[role |-> "user", content |-> user.content]>>
                                \o <<[role |-> "assistant", content |-> TokenText(tr.body)]>>
               /\ user.parent_id = NoId => Len(got.chain) = 2

\* C12 as amended: the same, where the entry of the user node carries the
\* node's summary once coarse-graining has written a non-empty one, and
\* user_content otherwise.
C12_ChainExtendsParentChain_Amended ==
    \A t \in Turns :
        LET tr == turn[t] IN
        (tr.pc = "done" /\ Tokens(tr.body) # {}) =>
            LET user == messages[tr.user_node_id]
                got == get_context_chain(messages, tr.ai_node_id)
                base == get_context_chain(messages, user.parent_id)
                shown == IF user.summary # Null /\ user.summary[1] # <<>>
                         THEN user.summary[1] ELSE user.content
            IN /\ got.status = "returned"
               /\ got.chain = base.chain
                                \o <<[role |-> "user", content |-> shown]>>
                                \o <<[role |-> "assistant", content |-> TokenText(tr.body)]>>
               /\ user.parent_id = NoId => Len(got.chain) = 2

C12_Witness ==
    \E t \in Turns :
        /\ turn[t].pc = "done"
        /\ Tokens(turn[t].body) # {}
        /\ Len(get_context_chain(messages, turn[t].ai_node_id).chain) = 3
        /\ Truthy(messages[turn[t].user_node_id].summary)
\* C13: the request of a turn whose input is classified as prompt injection
\* with confidence above 0.8, or as SQL injection, is rejected; the step
\* that rejects a turn answers 400 and leaves the node store, the tasks and
\* the id counters as they were, with no node, no query and no LLM call of
\* the turn, and nothing happens in the turn afterwards.
C13_InjectionRejectedBeforeEffects ==
    [][\A t \in Turns :
        /\ (turn[t].pc = "idle" /\ turn'[t].pc # "idle"
              /\ (turn'[t].verdict.confidence > 80 \/ turn'[t].verdict.sql_detected)) =>
              turn'[t].pc = "rejected"
        /\ (turn[t].pc = "idle" /\ turn'[t].pc = "rejected") =>
              /\ turn'[t].status = 400
              /\ turn'[t].trace = <<>>
              /\ turn'[t].user_node_id = NoId /\ turn'[t].ai_node_id = NoId
              /\ messages' = messages /\ tasks' = tasks
              /\ nextNode' = nextNode
        /\ turn[t].pc = "rejected" => turn'[t] = turn[t]]_vars

C13_Witness ==
    \E t \in Turns :
        /\ turn[t].pc = "rejected"
        /\ turn[t].status = 400
        /\ turn[t].verdict.confidence > 80
        /\ ~turn[t].verdict.sql_detected
        /\ \E n \in DOMAIN messages : messages[n].summary # Null
\* C14: a coarse-graining task exists for a stored node exactly if the
\* node's similarity_to_parent is strictly greater than the threshold (0.40);
\* a root, a node whose parent was not found when it was created and a node
\* whose similarity equals the threshold have none.
C14_TaskIffAboveThreshold ==
    /\ DOMAIN tasks \subseteq DOMAIN messages
    /\ \A n \in DOMAIN messages :
          LET m == messages[n] IN
          /\ n \in DOMAIN tasks <=> m.similarity_to_parent > 40
          /\ (m.parent_id = NoId \/ ~Stored(messages, m.parent_id)) =>
                (m.similarity_to_parent = 0 /\ n \notin DOMAIN tasks)
          /\ m.similarity_to_parent = 40 => n \notin DOMAIN tasks

C14_Witness ==
    \E n, k, r \in DOMAIN messages :
        /\ messages[n].similarity_to_parent = 40 /\ n \notin DOMAIN tasks
        /\ messages[k].similarity_to_parent = 41 /\ k \in DOMAIN tasks
        /\ messages[r].parent_id = NoId /\ r \notin DOMAIN tasks
\* C15: the stored assistant node of a turn is the row create_node would
\* have written for it under the turn's user node: its similarity_to_parent
\* is the similarity of the response to the user node's content, and it has
\* a coarse-graining task exactly if that similarity exceeds the threshold.
C15_AssistantNodeCoarseGrained ==
    \A t \in Turns :
        LET tr == turn[t] IN
        (tr.ai_node_id # NoId /\ Stored(messages, tr.ai_node_id)) =>
            \E sim \in SimValues :
                LET similarity == CreateSimilarity(messages, tr.user_node_id, sim) IN
                /\ messages[tr.ai_node_id].similarity_to_parent = similarity
                /\ tr.ai_node_id \in DOMAIN tasks <=> similarity > 40
\* C16: a coarse-graining run on a node that already has a summary is a
\* no-op: once a node's summary is set, no step changes the summary or any
\* other field of the node, so a second run leaves the state of the first.
C16_SecondRunIsNoOp ==
    [][\A n \in DOMAIN messages :
          messages[n].summary # Null => messages'[n] = messages[n]]_vars
\* C17: when the summarizer call of a node's coarse-graining task failed (a
\* response other than 200, or an exception), the node is as it was: its
\* summary is still unset and its chain entry is its verbatim content.
C17_FailedSummaryLeavesNode ==
    \A n \in DOMAIN tasks :
        (tasks[n].pc = "done" /\ tasks[n].outcome \in {"status", "exception"}) =>
            /\ messages[n].summary = Null
            /\ LET r == get_context_chain(messages, n) IN
               r.chain[Len(r.chain)].content = messages[n].content
ScoreAt(c, i) ==
    CausalScore(c.graph, extract_entities(c.nlp, c.query),
                extract_entities(c.nlp, c.context_chunks[i]))

\* candidate i comes before candidate j in the order "score descending,
\* equal scores in input order"
Before(c, i, j) ==
    ScoreAt(c, i) > ScoreAt(c, j) \/ (ScoreAt(c, i) = ScoreAt(c, j) /\ i < j)

\* C19: verify_mechanisms returns min(3, |cs|) chunks, taken from pairwise
\* different positions of cs (so each is an element of cs and none is
\* returned more often than it occurs), in the order score descending with
\* equal scores in input order, and every candidate left out comes after
\* every returned one in that order.
C19_TopThreeStableByScore ==
    causal.pc = "returned" =>
        LET cs == causal.context_chunks
            res == causal.result
        IN /\ Len(res) <= 3
           /\ Len(res) = IF Len(cs) < 3 THEN Len(cs) ELSE 3
           /\ \E f \in [1..Len(res) -> 1..Len(cs)] :
                /\ \A i, j \in 1..Len(res) : i < j => Before(causal, f[i], f[j])
                /\ \A i \in 1..Len(res) : res[i] = cs[f[i]]
                /\ \A k \in 1..Len(cs) :
                     (\A i \in 1..Len(res) : f[i] # k) =>
                         \A i \in 1..Len(res) : Before(causal, f[i], k)

C19_Witness ==
    /\ causal.pc = "returned"
    /\ Len(causal.context_chunks) = 4
    /\ ScoreAt(causal, 1) = 0 /\ ScoreAt(causal, 2) = 1
    /\ ScoreAt(causal, 3) = 0 /\ ScoreAt(causal, 4) = 2
    /\ causal.context_chunks[1] # causal.context_chunks[3]
    /\ causal.result = <<causal.context_chunks[4], causal.context_chunks[2],
                         causal.context_chunks[1]>>

\* C20: without the NER model, with a query without entities, or with a
\* causal graph without nodes, verify_mechanisms returns the first
\* min(3, |cs|) candidates in input order; for no candidates, the empty list.
C20_FallbackKeepsFirstThree ==
    causal.pc = "returned" =>
        LET cs == causal.context_chunks
            res == causal.result
            bypass == \/ ~causal.nlp
                      \/ \A i \in 1..Len(causal.query) : causal.query[i] \notin Nouns
                      \/ causal.graph.nodes = {}
        IN /\ bypass => /\ Len(res) = (IF Len(cs) < 3 THEN Len(cs) ELSE 3)
                        /\ \A i \in 1..Len(res) : res[i] = cs[i]
           /\ cs = <<>> => res = <<>>

C20_Witness ==
    /\ causal.pc = "returned"
    /\ causal.nlp /\ causal.query = <<"a">> /\ causal.graph.nodes = {}
    /\ Len(causal.context_chunks) = 4
    /\ causal.context_chunks[1] = <<"x">> /\ causal.context_chunks[2] = <<"a", "b">>
    /\ causal.result = SubSeq(causal.context_chunks, 1, 3)
\* ---- C23 ----
\* A turn whose vector query failed is not aborted: it goes on to the LLM call
\* with status 200, as a turn whose query returned no chunks does.
C23_QueryFailureDoesNotAbort ==
    \A t \in Turns :
        Positions(turn[t].trace, "query_error") # {}
        => /\ turn[t].status = 200
           /\ turn[t].pc \in {"llm1", "stream1", "llm2", "stream2", "done", "cancelled"}

\* ---- C24 ----
\* The LLM call is re-issued only while no token was forwarded: the retry is
\* never awaited after a token, and no token of a second call follows a token
\* of the first; a turn that ended after a token of the first call has that
\* call's text persisted.
C24_RetryOnlyBeforeTokens ==
    \A t \in Turns :
        LET body == turn[t].body IN
        /\ turn[t].pc = "llm2" => Tokens(body) = {}
        /\ \A i, j \in Tokens(body) : body[i].attempt = body[j].attempt
        /\ turn[t].pc = "done" /\ Tokens(body) # {}
           => /\ Stored(messages, turn[t].ai_node_id)
              /\ messages[turn[t].ai_node_id].content = TokenText(body)
\* the entities of a text as a set
EntitySet(text) == {text[i] : i \in {j \in 1..Len(text) : text[j] \in Nouns}}

\* ---- C25 ----
\* The score verify_mechanisms gives a chunk is the number of distinct pairs
\* of an entity of the query and an entity of the chunk joined by a directed
\* path one way or the other; an entity extracted several times counts once.
C25_ScoreCountsDistinctPairs ==
    causal.pc = "returned" =>
        \A i \in 1..Len(causal.scores) :
            causal.scores[i] =
                Cardinality({p \in EntitySet(causal.query) \X EntitySet(causal.context_chunks[i]) :
                    /\ p[1] \in causal.graph.nodes /\ p[2] \in causal.graph.nodes
                    /\ \/ p[2] \in Reach(causal.graph, {p[1]})
                       \/ p[1] \in Reach(causal.graph, {p[2]})})
\* the ids of the chunks add_document makes of document d
ChunkIdsOf(d) ==
    LET split == split_document(d, kb_docs[d], Metadata("f", d))
    IN {split.chunks[i].id : i \in 1..Len(split.chunks)}

\* ---- C21 ----
\* Deleting document d removes the chunks whose source_id is d, so that no
\* chunk of d is left, and leaves every other chunk as it was; a query returns
\* only chunks of documents that exist, and every chunk of such a document is
\* in the index (and returned, when the index holds no more than n_results).
C21_DeleteRemovesExactlyDocChunks ==
    [][/\ \A d \in DOMAIN kb_docs : d \notin DOMAIN kb_docs' =>
            /\ DOMAIN collection' =
                 {id \in DOMAIN collection : collection[id].metadata.source_id # d}
            /\ \A id \in DOMAIN collection' : collection'[id] = collection[id]
            /\ \A id \in DOMAIN collection' : id[1] # d
       /\ kbCall'.op = "query" =>
            /\ \A id \in kbCall'.result :
                 /\ id \in DOMAIN collection
                 /\ id[1] \in DOMAIN kb_docs
                 /\ collection[id].document.text = kb_docs[id[1]]
            /\ \A d \in DOMAIN kb_docs : ChunkIdsOf(d) \subseteq DOMAIN collection
            /\ Cardinality(DOMAIN collection) <= n_results
                 => kbCall'.result = DOMAIN collection]_vars

C21_Witness ==
    /\ kbCall.op = "delete" /\ kbCall.result # {}
    /\ \E d \in DOMAIN kb_docs : ChunkIdsOf(d) # {}
    /\ DOMAIN collection # {}
\* ---- C26 ----
\* A chunk that does not reach the end of the text ends right after the last
\* newline of its window [start, start + 1000) that lies at start + 500 or
\* later, and is the whole window if there is no such newline.
C26_ChunkEndsAtLastNewline ==
    kbCall.op = "add" =>
        \A i \in 1..Len(kbCall.chunks) :
            LET start == kbCall.chunks[i].document.from
                end == kbCall.chunks[i].document.to
                late == {p \in kbCall.text.newlines :
                            start + 500 <= p /\ p < start + 1000}
            IN end < kbCall.text.len =>
                 IF late # {}
                 THEN \E p \in late : end = p + 1 /\ \A q \in late : q <= p
                 ELSE end = start + 1000

\* ---- C27 ----
\* add_document terminates; the chunks start at strictly increasing offsets,
\* the first at 0, each no later than the end of the chunk before it, so the
\* chunk ids of the document are pairwise distinct and every character of the
\* text lies in a chunk.
C27_ChunksAdvanceAndCover ==
    kbCall.op = "add" =>
        LET chunks == kbCall.chunks
            from(i) == chunks[i].document.from
            to(i) == chunks[i].document.to
        IN /\ kbCall.status = "done"
           /\ \A i \in 1..(Len(chunks) - 1) : from(i) < from(i + 1) /\ from(i + 1) <= to(i)
           /\ \A i, j \in 1..Len(chunks) : chunks[i].id = chunks[j].id => i = j
           /\ \A i \in 1..Len(chunks) : chunks[i].id = <<kbCall.doc_id, from(i)>>
           /\ \A p \in 0..(kbCall.text.len - 1) :
                \E i \in 1..Len(chunks) : from(i) <= p /\ p < to(i)
           /\ DOMAIN collection = {chunks[i].id : i \in 1..Len(chunks)}

C27_Witness ==
    /\ kbCall.op = "add" /\ kbCall.status = "done"
    /\ Len(kbCall.chunks) >= 3
    /\ \E i \in 1..Len(kbCall.chunks) :
         /\ kbCall.chunks[i].document.to < kbCall.text.len
         /\ kbCall.chunks[i].document.to - kbCall.chunks[i].document.from < chunk_size
\* ---- C28 ----
\* Splitting the string of query_knowledge on "---", trimming and dropping
\* the empty fragments gives the retrieved chunk texts, trimmed: one candidate
\* for each retrieved chunk, in retrieval order.
C28_SplitRecoversChunks ==
    kbCall.op = "split" =>
        kbCall.result = [i \in 1..Len(kbCall.chunks) |-> strip(kbCall.chunks[i])]
\* ---- C22 ----
\* A call delete_chat_session(s) leaves no node of session s in the store and
\* every node of every other session as it was.
C22_DeleteSessionRemovesNodes ==
    [][\A s \in SessionChoices :
         (sessionCall' # sessionCall /\ sessionCall'.op = "delete"
             /\ sessionCall'.session_id = s)
         => /\ \A n \in DOMAIN messages' : messages'[n].session_id # s
            /\ \A n \in DOMAIN messages :
                 messages[n].session_id # s
                 => n \in DOMAIN messages' /\ messages'[n] = messages[n]]_vars
\* ---- C29 ----
\* A step of a coarse-graining task leaves the set of stored nodes and every
\* field of every node but the summary as they were; a summary changes only
\* on the node of the task that steps, whose parent row stays as it was; and
\* get_context_chain gives every node a chain of the same length as before.
C29_TaskChangesOnlySummary ==
    [][(DOMAIN tasks' = DOMAIN tasks /\ tasks' # tasks) =>
         /\ DOMAIN messages' = DOMAIN messages
         /\ \A m \in DOMAIN messages :
              /\ messages'[m] = [messages[m] EXCEPT !.summary = messages'[m].summary]
              /\ messages'[m].summary # messages[m].summary
                 => /\ m \in DOMAIN tasks /\ tasks'[m] # tasks[m]
                    /\ messages[m].parent_id # m
                    /\ Stored(messages, messages[m].parent_id)
                    /\ messages'[messages[m].parent_id] = messages[messages[m].parent_id]
              /\ Len(get_context_chain(messages', m).chain)
                   = Len(get_context_chain(messages, m).chain)]_vars

C29_Witness ==
    \E n \in DOMAIN tasks :
        /\ tasks[n].pc = "done" /\ Stored(messages, n)
        /\ messages[n].summary = tasks[n].result
        /\ messages[n].content = tasks[n].child_content
        /\ Stored(messages, messages[n].parent_id)
        /\ messages[messages[n].parent_id].content = tasks[n].parent_content
        /\ Len(get_context_chain(messages, n).chain) = 2
\* ---- C30 ----
\* Among the stored nodes no node is its own ancestor: the parent pointers
\* have no cycle, whichever ids the clients named as parents.
C30_NoCycleAmongStoredNodes ==
    \A n \in DOMAIN messages :
        /\ messages[n].parent_id # n
        /\ Stored(messages, messages[n].parent_id)
           => n \notin UpClosure(messages, {messages[n].parent_id})

\* a node was created under the id of an assistant node that is not stored yet
C30_Witness ==
    \E t \in Turns :
        /\ turn[t].pc \in {"llm1", "stream1", "llm2", "stream2"}
        /\ ~Stored(messages, turn[t].ai_node_id)
        /\ \E n \in DOMAIN messages : messages[n].parent_id = turn[t].ai_node_id
====
